---- MODULE Spec2Model ----
(***************************************************************************)
(* amber-cli: a command-line client of the Amber electricity-pricing API.  *)
(* main.rs loads the configuration and performs three sequential GETs      *)
(* (sites, current prices, usage) with a client it defines inline;         *)
(* rest_client.rs is the library client with the same three operations.    *)
(***************************************************************************)
EXTENDS Integers, Sequences, FiniteSets, TLC

VARIABLES
    pc,                 \* position of main
    args,               \* the date range the caller asks the usage for
    config,             \* AppConfig as loaded: base_url and psk
    inflight,           \* requests sent whose response has not arrived
    sent,               \* every request main has sent, in order
    lastResp,           \* the response main received last
    ret,                \* what each of main's three fetches returned
    user_site_data,     \* main.rs:158
    current_price_data, \* main.rs:175
    stdout,             \* lines printed by main
    outcome,            \* how the run of main ended
    lib                 \* one call of the library client (rest_client.rs)

vars == <<pc, args, config, inflight, sent, lastResp, ret, user_site_data,
          current_price_data, stdout, outcome, lib>>

mainVars == <<pc, args, config, inflight, sent, lastResp, ret, user_site_data,
              current_price_data, stdout, outcome>>

(***************************************************************************)
(* Bounds and input sets                                                   *)
(***************************************************************************)
MaxSites == 2
MaxPrices == 2
MaxUsage == 2

BaseUrls == {"https://api.amber.com.au/v1", "http://localhost:8080"}
Tokens == {"psk_1f3a", "psk_9c7e"}
DateRanges == {[startDate |-> "2023-09-12", endDate |-> "2023-09-13"],
               [startDate |-> "2024-01-01", endDate |-> "2024-01-02"]}
Statuses == {200, 204, 301, 404}

None == [none |-> TRUE]

SeqsUpTo(S, n) == UNION {[1..k -> S] : k \in 0..n}

(***************************************************************************)
(* JSON objects a server may put in a response                             *)
(***************************************************************************)
SiteA == [activeFrom |-> "2022-01-01T00:00:00Z", channels |-> <<>>,
          id |-> "01FG2K6V5JZ37FEJX8Y1KP8YV", network |-> "Ausgrid",
          nmi |-> "4103000001", status |-> "active"]
SiteB == [activeFrom |-> "2021-06-30T00:00:00Z", channels |-> <<>>,
          id |-> "01HB7M3Q9ZT4", network |-> "Jemena",
          nmi |-> "6001000002", status |-> "closed"]
SiteExtra == [activeFrom |-> "2022-01-01T00:00:00Z", channels |-> <<>>,
              id |-> "01EXTRA", network |-> "Energex",
              nmi |-> "3100000003", status |-> "active", closedOn |-> "never"]
SiteNoId == [activeFrom |-> "2022-01-01T00:00:00Z", channels |-> <<>>,
             network |-> "Ausgrid", nmi |-> "4103000001", status |-> "active"]
SiteObjects == {SiteA, SiteB, SiteExtra, SiteNoId}

PriceA == [type |-> "CurrentInterval", date |-> "2023-09-12",
           duration |-> 30, startTime |-> "2023-09-12T01:00:01Z",
           endTime |-> "2023-09-12T01:30:00Z", nemTime |-> "2023-09-12T11:30:00+10:00",
           perKwh |-> "25.5", renewables |-> "31.2", spotPerKwh |-> "9.1",
           channelType |-> "general", spikeStatus |-> "none",
           tariffInformation |-> [period |-> "offPeak"],
           descriptor |-> "neutral", estimate |-> FALSE]
PriceB == [type |-> "CurrentInterval", date |-> "2023-09-12",
           duration |-> 30, startTime |-> "2023-09-12T01:00:01Z",
           endTime |-> "2023-09-12T01:30:00Z", nemTime |-> "2023-09-12T11:30:00+10:00",
           perKwh |-> "8.0", renewables |-> "31.2", spotPerKwh |-> "9.1",
           channelType |-> "feedIn", spikeStatus |-> "spike",
           tariffInformation |-> [period |-> "peak"],
           descriptor |-> "high", estimate |-> TRUE]
PriceNoEstimate == [type |-> "CurrentInterval", date |-> "2023-09-12",
           duration |-> 30, startTime |-> "2023-09-12T01:00:01Z",
           endTime |-> "2023-09-12T01:30:00Z", nemTime |-> "2023-09-12T11:30:00+10:00",
           perKwh |-> "25.5", renewables |-> "31.2", spotPerKwh |-> "9.1",
           channelType |-> "general", spikeStatus |-> "none",
           tariffInformation |-> [period |-> "offPeak"],
           descriptor |-> "neutral"]
PriceObjects == {PriceA, PriceB, PriceNoEstimate}

UsageA == [type |-> "Usage", duration |-> 30, date |-> "2023-09-12",
           endTime |-> "2023-09-12T01:30:00Z", quality |-> "billable",
           kwh |-> "0.25", nemTime |-> "2023-09-12T11:30:00+10:00",
           perKwh |-> "25.5", channelType |-> "general",
           channelIdentifier |-> "E1", cost |-> "6.4", renewables |-> "31.2",
           spotPerKwh |-> "9.1", startTime |-> "2023-09-12T01:00:01Z",
           spikeStatus |-> "none", tariffInformation |-> [period |-> "offPeak"],
           descriptor |-> "neutral"]
UsageNoKwh == [type |-> "Usage", duration |-> 30, date |-> "2023-09-12",
           endTime |-> "2023-09-12T01:30:00Z", quality |-> "billable",
           nemTime |-> "2023-09-12T11:30:00+10:00",
           perKwh |-> "25.5", channelType |-> "general",
           channelIdentifier |-> "E1", cost |-> "6.4", renewables |-> "31.2",
           spotPerKwh |-> "9.1", startTime |-> "2023-09-12T01:00:01Z",
           spikeStatus |-> "none", tariffInformation |-> [period |-> "offPeak"],
           descriptor |-> "neutral"]
UsageObjects == {UsageA, UsageNoKwh}

(***************************************************************************)
(* Response bodies and responses                                           *)
(***************************************************************************)
TextBody(t) == [kind |-> "text", text |-> t, items |-> <<>>]
ArrayBody(a) == [kind |-> "array", text |-> "", items |-> a]

TextBodies == {TextBody(""), TextBody("Not Found")}
SiteBodies == TextBodies \cup {ArrayBody(a) : a \in SeqsUpTo(SiteObjects, MaxSites)}
PriceBodies == TextBodies \cup {ArrayBody(a) : a \in SeqsUpTo(PriceObjects, MaxPrices)}
UsageBodies == TextBodies \cup {ArrayBody(a) : a \in SeqsUpTo(UsageObjects, MaxUsage)}

\* transport: "connect_fail" the request never gets a response,
\* "body_fail" status and headers arrive and the body stream breaks,
\* "ok" status and body both arrive.
ConnectFailure == [transport |-> "connect_fail", status |-> 0, body |-> TextBody("")]
Responses(bodies) ==
    {ConnectFailure}
    \cup {[transport |-> "body_fail", status |-> s, body |-> TextBody("")] : s \in Statuses}
    \cup {[transport |-> "ok", status |-> s, body |-> b] : s \in Statuses, b \in bodies}

Steps == {"sites", "prices", "usage"}
BodiesOf(step) == CASE step = "sites" -> SiteBodies
                    [] step = "prices" -> PriceBodies
                    [] step = "usage" -> UsageBodies

(***************************************************************************)
(* Results and errors                                                      *)
(***************************************************************************)
Ok(v) == [ok |-> TRUE, val |-> v]
Err(e) == [ok |-> FALSE, err |-> e]
\* a fetch that has not returned
NotCalled == [ok |-> FALSE, err |-> None]

\* reqwest::Error, by its kind: "Request" (send failed), "Body" (reading the
\* body failed), "Decode" (the body is not the JSON asked for).
ReqwestErr(kind) == [type |-> "reqwest::Error", kind |-> kind]

\* rest_client::Error, #[from] reqwest::Error
Error_ReqwestError(e) == [variant |-> "ReqwestError", source |-> e]
\* rest_client::Error::HttpNon200Status
Error_HttpNon200Status(status_code, body) ==
    [variant |-> "HttpNon200Status", status_code |-> status_code, body |-> body]
\* anyhow::Error made by `?` from a reqwest::Error
AnyhowError(e) == [variant |-> "anyhow::Error", source |-> e]

\* StatusCode's Display: the code and its canonical reason
StatusToString(s) == CASE s = 200 -> "200 OK"
                       [] s = 201 -> "201 Created"
                       [] s = 204 -> "204 No Content"
                       [] s = 301 -> "301 Moved Permanently"
                       [] s = 404 -> "404 Not Found"
                       [] s = 500 -> "500 Internal Server Error"
                       [] OTHER -> "<unknown status code>"

(***************************************************************************)
(* serde decoding of the three record types                                *)
(***************************************************************************)
SiteDetailsFields == {"activeFrom", "channels", "id", "network", "nmi", "status"}
SiteDetails(o) == [active_from |-> o.activeFrom, channels |-> o.channels,
                   id |-> o.id, network |-> o.network, nmi |-> o.nmi,
                   status |-> o.status]

CurrentPricesFields == {"type", "date", "duration", "startTime", "endTime",
                        "nemTime", "perKwh", "renewables", "spotPerKwh",
                        "channelType", "spikeStatus", "tariffInformation",
                        "descriptor", "estimate"}
CurrentPrices(o) == [interval_type |-> o.type, date |-> o.date,
                     duration |-> o.duration, start_time |-> o.startTime,
                     end_time |-> o.endTime, nem_time |-> o.nemTime,
                     per_kwh |-> o.perKwh, renewables |-> o.renewables,
                     spot_per_kwh |-> o.spotPerKwh,
                     channel_type |-> o.channelType,
                     spike_status |-> o.spikeStatus,
                     tariff_information |-> o.tariffInformation,
                     descriptor |-> o.descriptor, estimate |-> o.estimate]

CurrentUsageFields == {"type", "duration", "date", "endTime", "quality", "kwh",
                       "nemTime", "perKwh", "channelType", "channelIdentifier",
                       "cost", "renewables", "spotPerKwh", "startTime",
                       "spikeStatus", "tariffInformation", "descriptor"}
CurrentUsage(o) == [price_type |-> o.type, duration |-> o.duration,
                    date |-> o.date, end_time |-> o.endTime,
                    quality |-> o.quality, kwh |-> o.kwh,
                    nem_time |-> o.nemTime, per_kwh |-> o.perKwh,
                    channel_type |-> o.channelType,
                    channel_identifier |-> o.channelIdentifier,
                    cost |-> o.cost, renewables |-> o.renewables,
                    spot_per_kwh |-> o.spotPerKwh, start_time |-> o.startTime,
                    spike_status |-> o.spikeStatus,
                    tariff_information |-> o.tariffInformation,
                    descriptor |-> o.descriptor]

\* Whether the body is a JSON array whose every element has the fields the
\* record type requires (further fields are ignored).
Matches(body, fields) ==
    /\ body.kind = "array"
    /\ \A i \in DOMAIN body.items : fields \subseteq DOMAIN body.items[i]

\* Response::json::<Vec<T>>(): reads the body, then decodes it; the status
\* is not looked at. Either failure is a reqwest::Error.
json_SiteDetails(resp) ==
    IF resp.transport = "body_fail" THEN Err(ReqwestErr("Body"))
    ELSE IF Matches(resp.body, SiteDetailsFields)
         THEN Ok([i \in DOMAIN resp.body.items |-> SiteDetails(resp.body.items[i])])
         ELSE Err(ReqwestErr("Decode"))

json_CurrentPrices(resp) ==
    IF resp.transport = "body_fail" THEN Err(ReqwestErr("Body"))
    ELSE IF Matches(resp.body, CurrentPricesFields)
         THEN Ok([i \in DOMAIN resp.body.items |-> CurrentPrices(resp.body.items[i])])
         ELSE Err(ReqwestErr("Decode"))

json_CurrentUsage(resp) ==
    IF resp.transport = "body_fail" THEN Err(ReqwestErr("Body"))
    ELSE IF Matches(resp.body, CurrentUsageFields)
         THEN Ok([i \in DOMAIN resp.body.items |-> CurrentUsage(resp.body.items[i])])
         ELSE Err(ReqwestErr("Decode"))

\* Response::text(): the body as received
text(resp) ==
    IF resp.transport = "body_fail" THEN Err(ReqwestErr("Body"))
    ELSE Ok(resp.body)

(***************************************************************************)
(* Building a request                                                      *)
(***************************************************************************)
UpperCase == <<"A","B","C","D","E","F","G","H","I","J","K","L","M",
               "N","O","P","Q","R","S","T","U","V","W","X","Y","Z">>
LowerCase == <<"a","b","c","d","e","f","g","h","i","j","k","l","m",
               "n","o","p","q","r","s","t","u","v","w","x","y","z">>

to_ascii_lowercase(c) ==
    IF \E i \in DOMAIN UpperCase : UpperCase[i] = c
    THEN LowerCase[CHOOSE i \in DOMAIN UpperCase : UpperCase[i] = c]
    ELSE c

\* HeaderName from a string: every character of a header name is kept, the
\* letters in lower case ('_' and '-' are both legal and stay themselves).
HeaderName(chars) == [i \in DOMAIN chars |-> to_ascii_lowercase(chars[i])]

\* the header names as the three clients write them
AUTHORIZATION == <<"A","U","T","H","O","R","I","Z","A","T","I","O","N">>
CONTENT_TYPE == <<"C","O","N","T","E","N","T","_","T","Y","P","E">>
ACCEPT == <<"A","C","C","E","P","T">>

new_client(url, auth_token) == [url |-> url, auth_token |-> auth_token]

\* self.client.get(&self.url).header(..).header(..).header(..): the request
\* all six fetch functions send
BuildRequest(self) ==
    [method |-> "GET",
     url |-> self.url,
     headers |-> << <<HeaderName(AUTHORIZATION), "Bearer " \o self.auth_token>>,
                    <<HeaderName(CONTENT_TYPE), "application/json">>,
                    <<HeaderName(ACCEPT), "application/json">> >>]

(***************************************************************************)
(* The library client, rest_client.rs: what each fetch returns for a       *)
(* response                                                                *)
(***************************************************************************)
get_site_data(resp) ==
    IF resp.transport = "connect_fail"
    THEN Err(Error_ReqwestError(ReqwestErr("Request")))
    ELSE IF resp.status = 200
         THEN LET r == json_SiteDetails(resp)
              IN  IF r.ok THEN Ok(r.val) ELSE Err(Error_ReqwestError(r.err))
         ELSE LET b == text(resp)
              IN  IF b.ok
                  THEN Err(Error_HttpNon200Status(StatusToString(resp.status), b.val))
                  ELSE Err(Error_ReqwestError(b.err))

get_current_price_data(resp) ==
    IF resp.transport = "connect_fail"
    THEN Err(AnyhowError(ReqwestErr("Request")))
    ELSE LET r == json_CurrentPrices(resp)
         IN  IF r.ok THEN Ok(r.val) ELSE Err(AnyhowError(r.err))

get_usage_data(resp) ==
    IF resp.transport = "connect_fail"
    THEN Err(AnyhowError(ReqwestErr("Request")))
    ELSE LET r == json_CurrentUsage(resp)
         IN  IF r.ok THEN Ok(r.val) ELSE Err(AnyhowError(r.err))

(***************************************************************************)
(* The client main.rs defines inline                                       *)
(***************************************************************************)
main_get_site_data(resp) ==
    IF resp.transport = "connect_fail"
    THEN Err(AnyhowError(ReqwestErr("Request")))
    ELSE LET r == json_SiteDetails(resp)
         IN  IF r.ok THEN Ok(r.val) ELSE Err(AnyhowError(r.err))

main_get_current_price_data(resp) ==
    IF resp.transport = "connect_fail"
    THEN Err(AnyhowError(ReqwestErr("Request")))
    ELSE LET r == json_CurrentPrices(resp)
         IN  IF r.ok THEN Ok(r.val) ELSE Err(AnyhowError(r.err))

main_get_usage_data(resp) ==
    IF resp.transport = "connect_fail"
    THEN Err(AnyhowError(ReqwestErr("Request")))
    ELSE LET r == json_CurrentUsage(resp)
         IN  IF r.ok THEN Ok(r.val) ELSE Err(AnyhowError(r.err))

(***************************************************************************)
(* main                                                                    *)
(***************************************************************************)
sites_url(base_url) == base_url \o "/sites"

current_price_url(base_url, site_id) ==
    base_url \o "/sites/" \o site_id \o "/prices/current?&resolution=30"

usage_data_url(base_url, site_id) ==
    base_url \o "/sites/" \o site_id
    \o "/usage?startDate=2023-09-12&endDate=2023-09-13&resolution=30'"

\* get0 reading the last element instead of the first
get0_last(v) == IF Len(v) > 0 THEN [some |-> TRUE, val |-> v[Len(v)]]
                ELSE [some |-> FALSE, val |-> None]

\* Vec::get(0): the first element, if there is one
get0(v) == IF Len(v) > 0 THEN [some |-> TRUE, val |-> v[1]]
           ELSE [some |-> FALSE, val |-> None]

ExpectMsg == "Malformed array/invalid index[0]"

Returned(r) == [kind |-> "Returned", result |-> r]
Panicked(msg) == [kind |-> "Panicked", msg |-> msg]

Summary(site, price) ==
    << "-------------------------------------------------------------------",
       "My site details",
       "Grid network: " \o site.network,
       "My house meter NMI number: " \o site.nmi,
       "Status: " \o site.status,
       "-------------------------------------------------------------------",
       "Current 30min price window rate",
       "Window stats at: " \o price.start_time,
       "Window ends at: " \o price.end_time,
       "Per KWH price(c/kWh): " \o price.per_kwh,
       "Is this window in a spike?: " \o price.spike_status,
       "Overall rate status: " \o price.descriptor,
       "-------------------------------------------------------------------" >>

Send(step, url) ==
    LET client == new_client(url, config.auth_token)
        msg == [step |-> step, request |-> BuildRequest(client)]
    IN  /\ inflight' = inflight \cup {msg}
        /\ sent' = Append(sent, msg)

\* AppConfig::get().await? : the file gives base_url and psk, or the run
\* ends with the ConfigError
LoadConfig ==
    /\ pc = "config"
    /\ \/ \E b \in BaseUrls, t \in Tokens :
            /\ config' = [base_url |-> b, auth_token |-> t]
            /\ pc' = "send_sites"
            /\ UNCHANGED outcome
       \/ /\ outcome' = Returned(Err(AnyhowError([type |-> "ConfigError"])))
          /\ pc' = "done"
          /\ UNCHANGED config
    /\ UNCHANGED <<args, inflight, sent, lastResp, ret, user_site_data,
                   current_price_data, stdout, lib>>

SendSites ==
    /\ pc = "send_sites"
    /\ Send("sites", sites_url(config.base_url))
    /\ pc' = "await_sites"
    /\ UNCHANGED <<args, config, lastResp, ret, user_site_data,
                   current_price_data, stdout, outcome, lib>>

RecvSites ==
    /\ pc = "await_sites"
    /\ \E resp \in Responses(SiteBodies) :
         LET r == main_get_site_data(resp)
             first == get0(IF r.ok THEN r.val ELSE <<>>)
         IN  /\ inflight' = {m \in inflight : m.step # "sites"}
             /\ lastResp' = [step |-> "sites", resp |-> resp]
             /\ ret' = [ret EXCEPT !.sites = r]
             /\ IF ~r.ok
                THEN /\ outcome' = Returned(Err(r.err))
                     /\ pc' = "done"
                     /\ UNCHANGED user_site_data
                ELSE IF ~first.some
                THEN /\ outcome' = Panicked(ExpectMsg)
                     /\ pc' = "done"
                     /\ UNCHANGED user_site_data
                ELSE /\ user_site_data' = first.val
                     /\ pc' = "send_prices"
                     /\ UNCHANGED outcome
    /\ UNCHANGED <<args, config, sent, current_price_data, stdout, lib>>

\* SendPrices issuing the prices and the usage request together
SendPrices_join ==
    /\ pc = "send_prices"
    /\ LET p == [step |-> "prices",
                 request |-> BuildRequest(new_client(
                     current_price_url(config.base_url, user_site_data.id),
                     config.auth_token))]
           u == [step |-> "usage",
                 request |-> BuildRequest(new_client(
                     usage_data_url(config.base_url, user_site_data.id),
                     config.auth_token))]
       IN  /\ inflight' = inflight \cup {p, u}
           /\ sent' = sent \o <<p, u>>
    /\ pc' = "await_prices"
    /\ UNCHANGED <<args, config, lastResp, ret, user_site_data,
                   current_price_data, stdout, outcome, lib>>

SendPrices ==
    /\ pc = "send_prices"
    /\ Send("prices", current_price_url(config.base_url, user_site_data.id))
    /\ pc' = "await_prices"
    /\ UNCHANGED <<args, config, lastResp, ret, user_site_data,
                   current_price_data, stdout, outcome, lib>>

RecvPrices ==
    /\ pc = "await_prices"
    /\ \E resp \in Responses(PriceBodies) :
         LET r == main_get_current_price_data(resp)
             first == get0(IF r.ok THEN r.val ELSE <<>>)
         IN  /\ inflight' = {m \in inflight : m.step # "prices"}
             /\ lastResp' = [step |-> "prices", resp |-> resp]
             /\ ret' = [ret EXCEPT !.prices = r]
             /\ IF ~r.ok
                THEN /\ outcome' = Returned(Err(r.err))
                     /\ pc' = "done"
                     /\ UNCHANGED current_price_data
                ELSE IF ~first.some
                THEN /\ outcome' = Panicked(ExpectMsg)
                     /\ pc' = "done"
                     /\ UNCHANGED current_price_data
                ELSE /\ current_price_data' = first.val
                     /\ pc' = "send_usage"
                     /\ UNCHANGED outcome
    /\ UNCHANGED <<args, config, sent, user_site_data, stdout, lib>>

SendUsage ==
    /\ pc = "send_usage"
    /\ Send("usage", usage_data_url(config.base_url, user_site_data.id))
    /\ pc' = "await_usage"
    /\ UNCHANGED <<args, config, lastResp, ret, user_site_data,
                   current_price_data, stdout, outcome, lib>>

\* RecvUsage sending the request again when the fetch failed
RecvUsage_retry ==
    /\ pc = "await_usage"
    /\ \E resp \in Responses(UsageBodies) :
         LET r == main_get_usage_data(resp)
         IN  /\ inflight' = {m \in inflight : m.step # "usage"}
             /\ lastResp' = [step |-> "usage", resp |-> resp]
             /\ ret' = [ret EXCEPT !.usage = r]
             /\ IF ~r.ok
                THEN /\ pc' = "send_usage"
                     /\ UNCHANGED <<stdout, outcome>>
                ELSE /\ pc' = "done"
                     /\ stdout' = Summary(user_site_data, current_price_data)
                     /\ outcome' = Returned(Ok(<<>>))
    /\ UNCHANGED <<args, config, sent, user_site_data, current_price_data, lib>>

RecvUsage ==
    /\ pc = "await_usage"
    /\ \E resp \in Responses(UsageBodies) :
         LET r == main_get_usage_data(resp)
         IN  /\ inflight' = {m \in inflight : m.step # "usage"}
             /\ lastResp' = [step |-> "usage", resp |-> resp]
             /\ ret' = [ret EXCEPT !.usage = r]
             /\ pc' = "done"
             /\ IF ~r.ok
                THEN /\ outcome' = Returned(Err(r.err))
                     /\ UNCHANGED stdout
                ELSE /\ stdout' = Summary(user_site_data, current_price_data)
                     /\ outcome' = Returned(Ok(<<>>))
    /\ UNCHANGED <<args, config, sent, user_site_data, current_price_data, lib>>

(***************************************************************************)
(* A caller of the library client                                          *)
(***************************************************************************)
LibOps == {"get_site_data", "get_current_price_data", "get_usage_data"}
LibStep(op) == CASE op = "get_site_data" -> "sites"
                 [] op = "get_current_price_data" -> "prices"
                 [] op = "get_usage_data" -> "usage"
LibUrls == {sites_url(b) : b \in BaseUrls}
           \cup {current_price_url(b, SiteA.id) : b \in BaseUrls}
           \cup {usage_data_url(b, SiteA.id) : b \in BaseUrls}

LibIdle == [pc |-> "idle"]

\* RestClient::new_client, then one of the three fetches up to its .send()
LibCall ==
    /\ lib.pc = "idle"
    /\ \E op \in LibOps, url \in LibUrls, t \in Tokens :
         LET self == new_client(url, t)
         IN  lib' = [pc |-> "await", op |-> op, self |-> self,
                     request |-> BuildRequest(self)]
    /\ UNCHANGED mainVars

\* the rest of the fetch, once the response is there
LibReturn ==
    /\ lib.pc = "await"
    /\ \E resp \in Responses(BodiesOf(LibStep(lib.op))) :
         lib' = [pc |-> "returned", op |-> lib.op, self |-> lib.self,
                 request |-> lib.request, resp |-> resp,
                 ret |-> CASE lib.op = "get_site_data" -> get_site_data(resp)
                           [] lib.op = "get_current_price_data" -> get_current_price_data(resp)
                           [] lib.op = "get_usage_data" -> get_usage_data(resp)]
    /\ UNCHANGED mainVars

(***************************************************************************)
(* Specifications                                                          *)
(***************************************************************************)
Init ==
    /\ pc = "config"
    /\ args \in DateRanges
    /\ config = None
    /\ inflight = {}
    /\ sent = <<>>
    /\ lastResp = None
    /\ ret = [sites |-> NotCalled, prices |-> NotCalled, usage |-> NotCalled]
    /\ user_site_data = None
    /\ current_price_data = None
    /\ stdout = <<>>
    /\ outcome = None
    /\ lib = LibIdle

Next ==
    \/ LoadConfig
    \/ SendSites
    \/ RecvSites
    \/ SendPrices
    \/ RecvPrices
    \/ SendUsage
    \/ RecvUsage

Spec == Init /\ [][Next]_vars

LibNext ==
    \/ LibCall
    \/ LibReturn

LibSpec == Init /\ [][LibNext]_vars

(***************************************************************************)
(* Properties                                                              *)
(***************************************************************************)
Order == <<"sites", "prices", "usage">>
Later(k) == CASE k = "sites" -> {"prices", "usage"}
              [] k = "prices" -> {"usage"}
              [] k = "usage" -> {}
SentCount(k) == Cardinality({i \in DOMAIN sent : sent[i].step = k})
UrlSent(k) == sent[CHOOSE i \in DOMAIN sent : sent[i].step = k].request.url

\* a step has failed: its fetch returned an error, or the first element the
\* step needs is not there
Failed(k) ==
    /\ ret[k] # NotCalled
    /\ \/ ~ret[k].ok
       \/ (k # "usage" /\ ret[k].val = <<>>)

IsHttpStatusError(r, resp) ==
    /\ ~r.ok
    /\ r.err.variant = "HttpNon200Status"
    /\ r.err.body = resp.body

\* C1: each of the three fetches answers a response of status >= 300,
\* whatever its body, with HttpStatusError carrying the body as received.
C1_StatusErrorFrom300 ==
    (lib.pc = "returned" /\ lib.resp.transport = "ok" /\ lib.resp.status >= 300)
        => IsHttpStatusError(lib.ret, lib.resp)

\* C2: a 200 sites response whose body is [] ends the run with a returned
\* EmptyResultError, not a panic, and no prices or usage request is sent.
C2_EmptySitesIsReturnedError ==
    (/\ lastResp # None
     /\ lastResp.step = "sites"
     /\ lastResp.resp.transport = "ok"
     /\ lastResp.resp.status = 200
     /\ lastResp.resp.body = ArrayBody(<<>>))
        => /\ outcome # None
           /\ outcome.kind = "Returned"
           /\ ~outcome.result.ok
           /\ outcome.result.err.variant = "EmptyResultError"
           /\ SentCount("prices") = 0
           /\ SentCount("usage") = 0

\* C3: every step sends at most one request in a run; once a step has failed
\* no later step's request is sent, nothing is in flight, the run is over and
\* its outcome is that failure (the fetch's error, returned as it is).
C3_FailureEndsRun ==
    /\ \A k \in Steps : SentCount(k) <= 1
    /\ \A k \in Steps : Failed(k) =>
          /\ \A j \in Later(k) : SentCount(j) = 0
          /\ inflight = {}
          /\ pc = "done"
          /\ IF ~ret[k].ok
             THEN outcome = Returned(Err(ret[k].err))
             ELSE outcome = Panicked(ExpectMsg)

C3_Witness ==
    /\ ret.sites.ok
    /\ Failed("prices")
    /\ ~ret.prices.ok
    /\ SentCount("sites") = 1
    /\ SentCount("prices") = 1
    /\ pc = "done"

\* C4: at most one request is in flight; requests go out in the order sites,
\* prices, usage; the prices request only after the sites response was
\* received and decoded, the usage request only after the prices response was.
C4_OneInFlightInOrder ==
    /\ Cardinality(inflight) <= 1
    /\ \A i \in DOMAIN sent : i <= 3 /\ sent[i].step = Order[i]
    /\ SentCount("prices") > 0 =>
          /\ ret.sites.ok
          /\ \A m \in inflight : m.step # "sites"
    /\ SentCount("usage") > 0 =>
          /\ ret.prices.ok
          /\ \A m \in inflight : m.step # "prices"

C4_Witness ==
    /\ pc = "await_usage"
    /\ Cardinality(inflight) = 1
    /\ \E m \in inflight : m.step = "usage"
    /\ Len(sent) = 3

\* C5: the URL of the current-prices request is exactly
\* {baseUrl}/sites/{siteId}/prices/current?resolution=30 for the first
\* site's id.
C5_PricesUrlExact ==
    SentCount("prices") > 0 =>
        UrlSent("prices") = config.base_url \o "/sites/" \o ret.sites.val[1].id
                            \o "/prices/current?resolution=30"

\* C6: the URL of the usage request is exactly
\* {baseUrl}/sites/{siteId}/usage?startDate={startDate}&endDate={endDate}&resolution=30
\* with the caller's two dates and nothing after resolution=30.
C6_UsageUrlExact ==
    SentCount("usage") > 0 =>
        UrlSent("usage") = config.base_url \o "/sites/" \o ret.sites.val[1].id
                           \o "/usage?startDate=" \o args.startDate
                           \o "&endDate=" \o args.endDate \o "&resolution=30"

Authorization == <<"A","u","t","h","o","r","i","z","a","t","i","o","n">>
ContentType == <<"C","o","n","t","e","n","t","-","T","y","p","e">>
Accept == <<"A","c","c","e","p","t">>

\* header names compare as HTTP header names do: letter case aside
HasHeader(req, name, value) ==
    \E i \in DOMAIN req.headers :
        /\ HeaderName(req.headers[i][1]) = HeaderName(name)
        /\ req.headers[i][2] = value

\* C7: every request sent is a GET carrying Authorization: Bearer {token},
\* Content-Type: application/json and Accept: application/json.
C7_RequestHeaders ==
    \A i \in DOMAIN sent :
        LET req == sent[i].request
        IN  /\ req.method = "GET"
            /\ HasHeader(req, Authorization, "Bearer " \o config.auth_token)
            /\ HasHeader(req, ContentType, "application/json")
            /\ HasHeader(req, Accept, "application/json")

\* C8: get_site_data decodes the body only when the status is 200; any other
\* status, 2xx included, gives HttpStatusError with that status and the body.
C8_SitesBranchAt200 ==
    (/\ lastResp # None
     /\ lastResp.step = "sites"
     /\ lastResp.resp.transport = "ok"
     /\ lastResp.resp.status # 200)
        => /\ IsHttpStatusError(ret.sites, lastResp.resp)
           /\ ret.sites.err.status_code = StatusToString(lastResp.resp.status)

\* C9: get_site_data reports a 200 body that does not match the schema as a
\* DecodeError and a transport failure as a TransportError, two different
\* error kinds.
C9_DecodeIsNotTransport ==
    (lib.pc = "returned" /\ lib.op = "get_site_data") =>
        /\ (/\ lib.resp.transport = "ok"
            /\ lib.resp.status = 200
            /\ ~Matches(lib.resp.body, SiteDetailsFields))
              => (~lib.ret.ok /\ lib.ret.err.variant = "SerdeJsonError")
        /\ lib.resp.transport = "connect_fail"
              => (~lib.ret.ok /\ lib.ret.err.variant = "ReqwestError")

\* C10: the site id in the prices URL and in the usage URL is the id of the
\* first record of the sites response, and the summary is printed from the
\* first site and the first price; later records change nothing.
C10_FirstSiteOnly ==
    /\ pc \in {"send_prices", "await_prices"} =>
          /\ lastResp.step = "sites"
          /\ ret.sites.val[1].id = lastResp.resp.body.items[1].id
          /\ user_site_data = SiteDetails(lastResp.resp.body.items[1])
    /\ SentCount("prices") > 0 =>
          UrlSent("prices") = current_price_url(config.base_url, ret.sites.val[1].id)
    /\ SentCount("usage") > 0 =>
          UrlSent("usage") = usage_data_url(config.base_url, ret.sites.val[1].id)
    /\ stdout # <<>> =>
          stdout = Summary(ret.sites.val[1], ret.prices.val[1])

C10_Witness ==
    /\ ret.sites.ok
    /\ Len(ret.sites.val) = 2
    /\ ret.sites.val[1].id # ret.sites.val[2].id
    /\ SentCount("usage") = 1
    /\ stdout # <<>>

====
